---------------------------- MODULE Spec2Model ----------------------------
(***************************************************************************)
(* Task Tracker Pro: the task page (TaskTrackerPage) as a state machine.   *)
(*                                                                         *)
(* The repository holds two revisions of the page component:               *)
(*   src/src/app/page.tsx   (filter, then sort the filtered array)         *)
(*   src/unnamed/part_002   (copy, sort, then filter; page clamping)       *)
(* The variable `version` says which revision is running; it is chosen in  *)
(* Init and never changes.  Every handler is one action: the state updates *)
(* it queues, the render React performs for them (useMemo derivations) and *)
(* the effects that follow the render (the save effect).                   *)
(*                                                                         *)
(* Text (descriptions, links, search terms, formatted dates) is a sequence *)
(* of one-character strings, so that toLowerCase and includes are computed.*)
(***************************************************************************)
EXTENDS Integers, Sequences, FiniteSets, TLC

VARIABLES
  version,      \* which revision of the page component runs
  pc,           \* "mount": first render done, mount effects pending;
                \* "rerender": state set by the mount effects, render pending;
                \* "idle": waiting for a user action
  tasks,        \* useState<Task[]>([])
  editingTask,  \* useState<Task | null>(null)
  searchTerm,   \* useState("")
  currentPage,  \* useState(1)
  sortConfig,   \* useState({ key: 'date', direction: 'descending' })
  isClient,     \* useState(false)
  storage,      \* localStorage, the "tasks" slot
  writable,     \* whether localStorage.setItem stores (TRUE) or throws (FALSE)
                \* in this session: the quota is exceeded, or it is not
  toasts        \* what the last step handed to toast(), in order

vars == << version, pc, tasks, editingTask, searchTerm, currentPage,
           sortConfig, isClient, storage, writable, toasts >>

-----------------------------------------------------------------------------
(* Text *)

UpperCase == <<"A","B","C","D","E","F","G","H","I","J","K","L","M","N","O","P","Q","R","S","T","U","V","W","X","Y","Z">>
LowerCase == <<"a","b","c","d","e","f","g","h","i","j","k","l","m","n","o","p","q","r","s","t","u","v","w","x","y","z">>
DigitChars == <<"0","1","2","3","4","5","6","7","8","9">>

\* the lower-case letter of every upper-case letter
LowerOf ==
  [c \in {UpperCase[i] : i \in 1..26} |-> LowerCase[CHOOSE i \in 1..26 : UpperCase[i] = c]]

\* String.prototype.toLowerCase, one character
toLowerChar(c) == IF c \in DOMAIN LowerOf THEN LowerOf[c] ELSE c

\* String.prototype.toLowerCase
toLowerCase(s) == [i \in 1..Len(s) |-> toLowerChar(s[i])]

\* String.prototype.includes
includes(s, sub) ==
  \E i \in 0..(Len(s) - Len(sub)) :
    \A j \in 1..Len(sub) : s[i + j] = sub[j]

\* a decimal digit as text, and back
Digit(n) == DigitChars[n + 1]
DigitValues == [c \in {DigitChars[i] : i \in 1..10} |-> (CHOOSE i \in 1..10 : DigitChars[i] = c) - 1]
DigitVal(c) == DigitValues[c]

\* a natural number as decimal text (template literal `${n}`, format 'd' and 'y')
RECURSIVE NumText(_)
NumText(n) == IF n < 10 THEN << Digit(n) >> ELSE NumText(n \div 10) \o << Digit(n % 10) >>

\* zero-padded decimal text of fixed width (format 'MM', 'dd', 'yyyy'; toISOString)
RECURSIVE Pad(_, _)
Pad(n, width) ==
  IF width = 0 THEN << >> ELSE Pad(n \div 10, width - 1) \o << Digit(n % 10) >>

\* decimal text back to a number
RECURSIVE TextNum(_)
TextNum(s) ==
  IF s = << >> THEN 0 ELSE 10 * TextNum(SubSeq(s, 1, Len(s) - 1)) + DigitVal(s[Len(s)])

-----------------------------------------------------------------------------
(* Dates.  A Date is its UTC calendar fields down to the hour; the page     *)
(* runs in one time zone, taken to be UTC.                                  *)

MonthNames ==
  << <<"J","a","n","u","a","r","y">>,
     <<"F","e","b","r","u","a","r","y">>,
     <<"M","a","r","c","h">>,
     <<"A","p","r","i","l">>,
     <<"M","a","y">>,
     <<"J","u","n","e">>,
     <<"J","u","l","y">>,
     <<"A","u","g","u","s","t">>,
     <<"S","e","p","t","e","m","b","e","r">>,
     <<"O","c","t","o","b","e","r">>,
     <<"N","o","v","e","m","b","e","r">>,
     <<"D","e","c","e","m","b","e","r">> >>

IsLeap(y) == (y % 4 = 0 /\ y % 100 # 0) \/ y % 400 = 0

DaysInMonth(y, m) ==
  IF m = 2 THEN (IF IsLeap(y) THEN 29 ELSE 28)
  ELSE IF m \in {4, 6, 9, 11} THEN 30 ELSE 31

\* new Date(undefined), new Date("no date"): the Invalid Date, whose time
\* value is NaN
InvalidDate == [invalid |-> TRUE]
isValid(date) == "invalid" \notin DOMAIN date

\* Date.prototype.getTime, in hours on a scale that keeps the order of dates:
\* only differences and their sign are used
getTime(date) ==
  (((date.year * 12 + (date.month - 1)) * 31 + (date.day - 1)) * 24) + date.hour

\* new Date(t - 24 * 60 * 60 * 1000): the same hour one day earlier
PrevDay(date) ==
  IF date.day > 1 THEN [date EXCEPT !.day = date.day - 1]
  ELSE IF date.month > 1
    THEN [date EXCEPT !.month = date.month - 1,
                      !.day = DaysInMonth(date.year, date.month - 1)]
    ELSE [date EXCEPT !.year = date.year - 1, !.month = 12, !.day = 31]

RECURSIVE DaysAgo(_, _)
DaysAgo(date, n) == IF n = 0 THEN date ELSE DaysAgo(PrevDay(date), n - 1)

\* date-fns format(date, 'yyyy-MM-dd')
formatISODate(date) ==
  Pad(date.year, 4) \o <<"-">> \o Pad(date.month, 2) \o <<"-">> \o Pad(date.day, 2)

\* date-fns 'do': day of month with its ordinal suffix
Ordinal(d) ==
  NumText(d) \o
    (IF d % 100 \in {11, 12, 13} THEN <<"t","h">>
     ELSE IF d % 10 = 1 THEN <<"s","t">>
     ELSE IF d % 10 = 2 THEN <<"n","d">>
     ELSE IF d % 10 = 3 THEN <<"r","d">>
     ELSE <<"t","h">>)

\* date-fns format(date, 'PPP'): "January 1st, 2024"
formatPPP(date) ==
  MonthNames[date.month] \o <<" ">> \o Ordinal(date.day) \o <<","," ">> \o NumText(date.year)

\* date-fns format(date, 'PP'): "Jan 1, 2024"
formatPP(date) ==
  SubSeq(MonthNames[date.month], 1, 3) \o <<" ">> \o NumText(date.day)
    \o <<","," ">> \o NumText(date.year)

\* Date.prototype.toJSON / toISOString: "2024-01-01T00:00:00.000Z"
toISOString(date) ==
  formatISODate(date) \o <<"T">> \o Pad(date.hour, 2)
    \o <<":","0","0",":","0","0",".","0","0","0","Z">>

\* new Date(isoString)
parseDate(s) ==
  [year  |-> TextNum(SubSeq(s, 1, 4)),
   month |-> TextNum(SubSeq(s, 6, 7)),
   day   |-> TextNum(SubSeq(s, 9, 10)),
   hour  |-> TextNum(SubSeq(s, 12, 13))]

-----------------------------------------------------------------------------
(* Tasks (src/unnamed/part_003).  A Task is a record id, date, description, *)
(* status, with the field link only when the task has one: a link that is  *)
(* undefined is a field that is not there.                                  *)

Pending == <<"P","e","n","d","i","n","g">>
Completed == <<"C","o","m","p","l","e","t","e","d">>

HasLink(t) == "link" \in DOMAIN t

\* the fields every Task has
TaskKeys == {"id", "date", "description", "status"}

\* a task built with the link exactly as the form holds it
newTaskKeepingLink(values, id) ==
  [id |-> id, date |-> values.date, description |-> values.description,
   status |-> values.status, link |-> values.link]

\* { ...values, id: id, link: values.link || undefined }: the form's link is
\* text, and the empty text is falsy
newTaskOf(values, id) ==
  IF values.link = << >>
    THEN [id |-> id, date |-> values.date, description |-> values.description,
          status |-> values.status]
    ELSE [id |-> id, date |-> values.date, description |-> values.description,
          status |-> values.status, link |-> values.link]

\* the ids of a collection
IdsOf(ts) == {ts[i].id : i \in 1..Len(ts)}

\* the elements of a sequence
Elems(seq) == {seq[i] : i \in 1..Len(seq)}

-----------------------------------------------------------------------------
(* Sorting: the comparator handed to Array.prototype.sort, and the sort.    *)

NoKey == "null"

\* the characters of the model's texts that are neither letters nor digits
Punctuation == <<" ","_","-",",",".",":","/">>

\* collation rank of a character: space and punctuation, then digits, then
\* letters without regard to case
CharRankOf ==
  [c \in {UpperCase[i] : i \in 1..26} \cup {LowerCase[i] : i \in 1..26}
         \cup {DigitChars[i] : i \in 1..10} \cup {Punctuation[i] : i \in 1..7} |->
     IF \E i \in 1..26 : c \in {UpperCase[i], LowerCase[i]}
       THEN 20 + (CHOOSE i \in 1..26 : c \in {UpperCase[i], LowerCase[i]})
     ELSE IF \E i \in 1..10 : c = DigitChars[i]
       THEN 10 + (CHOOSE i \in 1..10 : c = DigitChars[i])
     ELSE CHOOSE i \in 1..7 : c = Punctuation[i]]

\* 1 for an upper-case letter, 0 for any other character
CaseOf == [c \in DOMAIN CharRankOf |-> IF c \in DOMAIN LowerOf THEN 1 ELSE 0]

Sign(n) == IF n < 0 THEN -1 ELSE IF n > 0 THEN 1 ELSE 0

\* sequences of numbers in lexicographic order, a proper prefix first
RECURSIVE CompareSeq(_, _)
CompareSeq(x, y) ==
  IF x = << >> \/ y = << >> THEN Sign(Len(x) - Len(y))
  ELSE IF x[1] # y[1] THEN Sign(x[1] - y[1])
  ELSE CompareSeq(Tail(x), Tail(y))

OrElse(p, q) == IF p # 0 THEN p ELSE q

\* String.prototype.localeCompare: letters first compared without case, a
\* shorter prefix first; texts with equal letters are ordered lower case
\* before upper case
localeCompare(a, b) ==
  OrElse(CompareSeq([i \in 1..Len(a) |-> CharRankOf[a[i]]],
                    [i \in 1..Len(b) |-> CharRankOf[b[i]]]),
         CompareSeq([i \in 1..Len(a) |-> CaseOf[a[i]]],
                    [i \in 1..Len(b) |-> CaseOf[b[i]]]))

\* a comparator that forgets the direction
compareTasksAscending(a, b, config) ==
  LET key == config.key
  IN  IF key \in {"id", "description", "link", "status"}
        THEN localeCompare(a[key], b[key])
      ELSE IF key = "date" THEN getTime(a.date) - getTime(b.date)
      ELSE 0

\* the comparator of filteredTasks: (a, b) => ...
compareTasks(a, b, config) ==
  LET key == config.key
      asc == config.direction = "ascending"
      aUndefined == key \notin DOMAIN a
      bUndefined == key \notin DOMAIN b
      comparison ==
        IF key \in {"id", "description", "link", "status"}
          THEN localeCompare(a[key], b[key])
        ELSE IF key = "date"
          THEN (IF isValid(a.date) /\ isValid(b.date)
                  THEN getTime(a.date) - getTime(b.date)
                  ELSE 0)  \* NaN: sort takes a NaN result as 0
        ELSE 0
  IN  IF aUndefined /\ bUndefined THEN 0
      ELSE IF aUndefined THEN (IF asc THEN 1 ELSE -1)
      ELSE IF bUndefined THEN (IF asc THEN -1 ELSE 1)
      ELSE IF asc THEN comparison ELSE 0 - comparison

\* merging two sorted runs, the right one first among equals
RECURSIVE MergeRightFirst(_, _, _)
MergeRightFirst(left, right, config) ==
  IF left = << >> THEN right
  ELSE IF right = << >> THEN left
  ELSE IF compareTasks(Head(left), Head(right), config) < 0
    THEN << Head(left) >> \o MergeRightFirst(Tail(left), right, config)
    ELSE << Head(right) >> \o MergeRightFirst(left, Tail(right), config)

\* merging two sorted runs, the left one first among equals
RECURSIVE Merge(_, _, _)
Merge(left, right, config) ==
  IF left = << >> THEN right
  ELSE IF right = << >> THEN left
  ELSE IF compareTasks(Head(left), Head(right), config) <= 0
    THEN << Head(left) >> \o Merge(Tail(left), right, config)
    ELSE << Head(right) >> \o Merge(left, Tail(right), config)

\* Array.prototype.sort with the comparator: a stable sort
RECURSIVE StableSort(_, _)
StableSort(seq, config) ==
  IF Len(seq) <= 1 THEN seq
  ELSE Merge(StableSort(SubSeq(seq, 1, Len(seq) \div 2), config),
             StableSort(SubSeq(seq, Len(seq) \div 2 + 1, Len(seq)), config),
             config)

\* if (sortConfig.key) { array.sort(...) }
sortTasks(seq, config) ==
  IF config.key # NoKey THEN StableSort(seq, config) ELSE seq

-----------------------------------------------------------------------------
(* Search *)


\* the predicate handed to Array.prototype.filter
matchesSearch(task, term, v) ==
  LET lowerCaseSearchTerm == toLowerCase(term)
  IN  \/ includes(toLowerCase(task.description), lowerCaseSearchTerm)
      \/ includes(formatISODate(task.date), lowerCaseSearchTerm)
      \/ IF v = "part_002"
           THEN \/ includes(toLowerCase(formatPPP(task.date)), lowerCaseSearchTerm)
                \/ includes(toLowerCase(task.status), lowerCaseSearchTerm)
           ELSE includes(toLowerCase(formatPP(task.date)), lowerCaseSearchTerm)

\* if (searchTerm) { array.filter(...) }
filterTasks(seq, term, v) ==
  IF term # << >> THEN SelectSeq(seq, LAMBDA t : matchesSearch(t, term, v)) ELSE seq

\* The filter predicate throws on a task it cannot read: description (and in
\* part_002 status) undefined gives a TypeError on .toLowerCase(), and
\* date-fns format throws a RangeError on the Invalid Date.  || evaluates
\* left to right and stops at the first operand that is true.
searchThrows(task, term, v) ==
  LET lowerCaseSearchTerm == toLowerCase(term)
  IN  \/ "description" \notin DOMAIN task
      \/ /\ ~includes(toLowerCase(task.description), lowerCaseSearchTerm)
         /\ \/ ~isValid(task.date)
            \/ /\ v = "part_002"
               /\ ~includes(formatISODate(task.date), lowerCaseSearchTerm)
               /\ ~includes(toLowerCase(formatPPP(task.date)), lowerCaseSearchTerm)
               /\ "status" \notin DOMAIN task

\* only a task that lacks a field of Task, or whose date is the Invalid
\* Date, can make the filter or a table row throw
unreadable(task) == ~(TaskKeys \subseteq DOMAIN task) \/ ~isValid(task.date)

filterThrows(seq, term, v) ==
  /\ term # << >>
  /\ \E i \in 1..Len(seq) : unreadable(seq[i]) /\ searchThrows(seq[i], term, v)

\* <TableCell>{format(task.date, "PPP")}</TableCell> of a row on the page
rowsThrow(rows) == \E i \in 1..Len(rows) : ~isValid(rows[i].date)

\* a view that returns what the filter kept without sorting it
filteredTasksUnsorted(ts, term, config, v) ==
  IF term # << >> THEN filterTasks(ts, term, v) ELSE sortTasks(ts, config)

\* useMemo filteredTasks: part_002 sorts a copy and then filters it;
\* page.tsx filters and then sorts what the filter returned
filteredTasksOf(ts, term, config, v) ==
  IF v = "part_002"
    THEN filterTasks(sortTasks(ts, config), term, v)
    ELSE sortTasks(filterTasks(ts, term, v), config)

\* The tasks array once filteredTasks has been computed to be `filtered`.
\* part_002 sorts [...tasks] and leaves tasks alone.  In page.tsx `filtered`
\* is the tasks array itself when there is no search term, and
\* filtered.sort() sorts it in place.
tasksAfterMemo(ts, filtered, term, v) ==
  IF v = "page.tsx" /\ term = << >> THEN filtered ELSE ts

-----------------------------------------------------------------------------
(* Pagination *)

TASKS_PER_PAGE == 30

Max(a, b) == IF a > b THEN a ELSE b
Min(a, b) == IF a < b THEN a ELSE b

\* a page count that rounds down
totalPagesFloor(n) == n \div TASKS_PER_PAGE

\* Math.ceil(n / TASKS_PER_PAGE)
totalPagesOf(n) == (n + TASKS_PER_PAGE - 1) \div TASKS_PER_PAGE

\* Math.max(1, Math.min(page, totalPages || 1))
clampPage(page, total) == Max(1, Min(page, IF total = 0 THEN 1 ELSE total))

\* a slice that takes the element at index end as well
sliceInclusive(seq, start, end) == SubSeq(seq, start + 1, Min(end + 1, Len(seq)))

\* Array.prototype.slice(start, end)
slice(seq, start, end) == SubSeq(seq, start + 1, Min(end, Len(seq)))

\* part_002 renders the page validCurrentPage; page.tsx renders currentPage
pageRendered(page, total, v) ==
  IF v = "part_002" THEN clampPage(page, total) ELSE page

\* useMemo paginatedTasks
paginatedTasksOf(filtered, page, v) ==
  LET startIndex == (pageRendered(page, totalPagesOf(Len(filtered)), v) - 1) * TASKS_PER_PAGE
      endIndex == startIndex + TASKS_PER_PAGE
  IN  slice(filtered, startIndex, endIndex)

\* goToPage: Math.max(1, Math.min(page, totalPages || 1)) in part_002,
\* Math.max(1, Math.min(page, totalPages)) in page.tsx
goToPageTarget(page, total, v) ==
  IF v = "part_002" THEN clampPage(page, total) ELSE Max(1, Min(page, total))

-----------------------------------------------------------------------------
(* Persistence: the "tasks" slot of localStorage holds no item, or a text.  *)
(* A text that is the JSON of an array is modelled by the array it parses  *)
(* to, with every date as the ISO text JSON.stringify writes.              *)

NoItem == [kind |-> "null"]

\* the JSON value null
JsonNull == [json |-> "null"]

\* a serialization that writes a link that is undefined as the empty text
taskToJSONEmptyLink(t) ==
  [id |-> t.id, date |-> toISOString(t.date), description |-> t.description,
   status |-> t.status, link |-> IF HasLink(t) THEN t.link ELSE << >>]

\* JSON.stringify of one task: Date.prototype.toJSON for the date, and a key
\* whose value is undefined is left out
taskToJSON(t) ==
  IF TaskKeys \subseteq DOMAIN t /\ isValid(t.date)
    THEN IF HasLink(t)
           THEN [id |-> t.id, date |-> toISOString(t.date), description |-> t.description,
                 status |-> t.status, link |-> t.link]
           ELSE [id |-> t.id, date |-> toISOString(t.date), description |-> t.description,
                 status |-> t.status]
    ELSE [k \in DOMAIN t |->
            IF k # "date" THEN t[k]
            ELSE IF isValid(t.date) THEN toISOString(t.date)
            ELSE JsonNull]  \* toJSON of the Invalid Date is null

\* JSON.stringify(tasks)
stringify(ts) == [kind |-> "array", items |-> [i \in 1..Len(ts) |-> taskToJSON(ts[i])]]

\* (task) => ({ ...task, date: new Date(task.date) })
reviveTask(o) ==
  IF "date" \in DOMAIN o
    THEN [o EXCEPT !.date = IF o.date = JsonNull
                              THEN [year |-> 1970, month |-> 1, day |-> 1, hour |-> 0]
                              ELSE parseDate(o.date)]
    ELSE [k \in DOMAIN o \cup {"date"} |-> IF k = "date" THEN InvalidDate ELSE o[k]]

\* what makes the try block of the load effect throw: JSON.parse on a text
\* that is no JSON (SyntaxError), .map on a value that is no array, and
\* task.date on an element that is null (TypeError)
loadThrows(text) ==
  \/ text.kind = "text" /\ text.text # << >>
  \/ text.kind = "value"
  \/ text.kind = "array" /\ \E i \in 1..Len(text.items) : text.items[i] = JsonNull

\* JSON.parse(storedTasks).map(...)
parseTasks(text) == [i \in 1..Len(text.items) |-> reviveTask(text.items[i])]

-----------------------------------------------------------------------------
(* Inputs *)

null == [null |-> TRUE]

\* generateId(): '_' + Math.random().toString(36).substr(2, 9); the random
\* draws the model takes
GenIds == { <<"_","a">>, <<"_","b">> }

Date1 == [year |-> 2024, month |-> 1, day |-> 1, hour |-> 0]
Date2 == [year |-> 2024, month |-> 3, day |-> 2, hour |-> 0]

ExampleLink == <<"h","t","t","p","s",":","/","/","e",".","c","o","/","t">>

\* z.string().url(): the text parses as an absolute URL, scheme first
IsUrl(s) ==
  \E i \in 2..Len(s) :
    /\ s[i] = ":"
    /\ \A j \in 1..(i - 1) : CharRankOf[s[j]] > 20

\* taskSchema.safeParse(values).success
Valid(values) ==
  /\ Len(values.description) >= 1
  /\ (values.link = << >> \/ IsUrl(values.link))
  /\ values.status \in {Pending, Completed}

\* what the form is submitted with
FormInputs ==
  { [date |-> Date1, description |-> <<"X">>, link |-> << >>, status |-> Pending],
    [date |-> Date2, description |-> <<"b">>, link |-> ExampleLink, status |-> Completed],
    [date |-> Date1, description |-> << >>, link |-> << >>, status |-> Pending],
    [date |-> Date2, description |-> <<"b">>, link |-> <<"e",".","c","o">>, status |-> Pending] }

\* what is typed into the search box
SearchInputs == { << >>, <<"X">> }

SortKeys == { "date", "description", "status" }

\* the page numbers goToPage is called with
PageInputs == {0, 2}

\* a cap on the length the collection is grown to by adding
MaxTasks == 2

\* what the slot holds when the page is opened: collections left there by
\* earlier sessions
StoredInputs ==
  { stringify(<< >>),
    stringify(<< newTaskOf([date |-> Date1, description |-> <<"X">>, link |-> << >>,
                            status |-> Pending], <<"_","a">>),
                 newTaskOf([date |-> Date2, description |-> <<"b">>, link |-> ExampleLink,
                            status |-> Completed], <<"_","b">>) >>) }

-----------------------------------------------------------------------------
(* Sample data written on the first run *)

\* Date.now() when the page is mounted
Now == [year |-> 2024, month |-> 3, day |-> 15, hour |-> 10]

\* Array.from({ length: ... })
SeedCount(v) == IF v = "part_002" THEN 35 ELSE 5

\* the ids generateId() returns for the sample tasks: all different, or the
\* second draw repeating the first
SampleId(i) == <<"_","s">> \o NumText(i)
SeedIdChoices ==
  { [i \in 0..34 |-> SampleId(i)],
    [i \in 0..34 |-> IF i = 1 THEN SampleId(0) ELSE SampleId(i)] }

\* `Sample Task ${i + 1} description about something important.`
SampleDescription(i) ==
  <<"S","a","m","p","l","e"," ","T","a","s","k"," ">> \o NumText(i + 1)
    \o <<" ","d","e","s","c","r","i","p","t","i","o","n"," ","a","b","o","u","t"," ",
         "s","o","m","e","t","h","i","n","g"," ","i","m","p","o","r","t","a","n","t",".">>

\* `https://example.com/task/${i + 1}`
SampleLink(i) ==
  <<"h","t","t","p","s",":","/","/","e","x","a","m","p","l","e",".","c","o","m","/",
    "t","a","s","k","/">> \o NumText(i + 1)

\* the element of dummyTasks at index i (from 0)
dummyTask(i, id, v) ==
  LET values ==
        [date |-> DaysAgo(Now, i),
         description |-> SampleDescription(i),
         link |-> IF v = "part_002" /\ i % 5 # 0 THEN << >> ELSE SampleLink(i),
         status |-> IF v = "part_002"
                      THEN (IF i % 3 = 0 THEN Completed ELSE Pending)
                      ELSE (IF i % 2 = 0 THEN Completed ELSE Pending)]
  IN  newTaskOf(values, id)

dummyTasks(ids, v) == [k \in 1..SeedCount(v) |-> dummyTask(k - 1, ids[k - 1], v)]

-----------------------------------------------------------------------------
(* Toasts *)

ToastAdded == [title |-> "Success", description |-> "Task added successfully."]
ToastUpdated == [title |-> "Success", description |-> "Task updated successfully."]
ToastDeleted == [title |-> "Success", description |-> "Task deleted successfully."]
ToastLoadError ==
  [title |-> "Error Loading Tasks", description |-> "Could not load tasks from local storage."]
ToastSaveError(v) ==
  [title |-> IF v = "part_002" THEN "Error Saving Tasks" ELSE "Error",
   description |-> "Could not save tasks locally."]

-----------------------------------------------------------------------------
(* The state machine *)

DefaultSort == [key |-> "date", direction |-> "descending"]

\* the state after the first render, the slot holding one of `stored`
InitWith(stored, quota) ==
  /\ version \in {"page.tsx", "part_002"}
  /\ pc = "mount"
  /\ tasks = << >>
  /\ editingTask = null
  /\ searchTerm = << >>
  /\ currentPage = 1
  /\ sortConfig = DefaultSort
  /\ isClient = FALSE
  /\ storage \in stored
  /\ writable \in quota
  /\ toasts = << >>

Init == InitWith(StoredInputs, BOOLEAN)

\* what is on screen
filteredTasks == filteredTasksOf(tasks, searchTerm, sortConfig, version)
totalPages == totalPagesOf(Len(filteredTasks))
paginatedTasks == paginatedTasksOf(filteredTasks, currentPage, version)

\* a save effect that swallows the failure of setItem
SaveEffectSilent(client, ts, before) ==
  IF client /\ writable
    THEN storage' = stringify(ts) /\ toasts' = before
    ELSE storage' = storage /\ toasts' = before

\* a save effect that writes the tasks of the render before
SaveEffectStale(client, ts, before) ==
  IF client /\ writable
    THEN storage' = stringify(tasks) /\ toasts' = before
    ELSE storage' = storage /\ toasts' = before

\* a save effect that does not wait for isClient
SaveEffectUnguarded(client, ts, before) ==
  IF writable
    THEN storage' = stringify(ts) /\ toasts' = before
    ELSE storage' = storage /\ toasts' = before \o << ToastSaveError(version) >>

\* a save effect that skips the write of an empty collection
SaveEffectUnlessEmpty(client, ts, before) ==
  IF client /\ ts # << >>
    THEN IF writable
           THEN storage' = stringify(ts) /\ toasts' = before
           ELSE storage' = storage /\ toasts' = before \o << ToastSaveError(version) >>
    ELSE storage' = storage /\ toasts' = before

\* The save effect, useEffect(..., [tasks, isClient, toast]), run with the
\* isClient of the render it belongs to; setItem stores the text or throws.
SaveEffect(client, ts, before) ==
  IF client
    THEN IF writable
           THEN storage' = stringify(ts) /\ toasts' = before
           ELSE storage' = storage /\ toasts' = before \o << ToastSaveError(version) >>
    ELSE storage' = storage /\ toasts' = before

\* The effects of the first render, in order: the load effect, and the save
\* effect of that render, whose isClient is still false.
LoadEffect ==
  /\ pc = "mount"
  /\ pc' = "rerender"
  /\ isClient' = TRUE
  /\ IF loadThrows(storage)
       THEN /\ tasks' = << >>  \* catch: setTasks([])
            /\ storage' = storage
            /\ toasts' = IF version = "part_002" THEN << ToastLoadError >> ELSE << >>
       ELSE IF storage # NoItem /\ storage # [kind |-> "text", text |-> << >>]
       THEN /\ tasks' = parseTasks(storage)
            /\ SaveEffect(isClient, tasks, << >>)
       ELSE \E ids \in SeedIdChoices :
              IF writable
                THEN /\ tasks' = dummyTasks(ids, version)
                     /\ storage' = stringify(dummyTasks(ids, version))
                     /\ toasts' = << >>
                ELSE /\ tasks' = << >>
                     /\ storage' = storage
                     /\ toasts' = IF version = "part_002" THEN << ToastLoadError >> ELSE << >>
  /\ UNCHANGED << version, editingTask, searchTerm, currentPage, sortConfig, writable >>

\* A render and the effects after it: filteredTasks and paginatedTasks are
\* computed for the state given, then the save effect runs when setTasks (or
\* setIsClient) was called.
Commit(ts, editing, term, page, config, saves, before) ==
  LET filterFails == filterThrows(ts, term, version)
      filtered == IF filterFails THEN << >> ELSE filteredTasksOf(ts, term, config, version)
      memoTasks == IF filterFails THEN ts ELSE tasksAfterMemo(ts, filtered, term, version)
      total == totalPagesOf(Len(filtered))
      rows == paginatedTasksOf(filtered, page, version)
      renderFails ==
        \/ filterFails
        \/ (\E i \in 1..Len(ts) : unreadable(ts[i])) /\ rowsThrow(rows)
  IN  /\ editingTask' = editing
      /\ searchTerm' = term
      /\ sortConfig' = config
      /\ tasks' = memoTasks
      /\ currentPage' = pageRendered(page, total, version)
      /\ pc' = IF renderFails THEN "crashed" ELSE "idle"
      /\ IF saves /\ ~renderFails
           THEN SaveEffect(isClient', memoTasks, before)
           ELSE storage' = storage /\ toasts' = before
      /\ UNCHANGED << version, writable >>

\* the render that follows the mount effects, and its save effect
Rerender ==
  /\ pc = "rerender"
  /\ UNCHANGED isClient
  /\ Commit(tasks, editingTask, searchTerm, currentPage, sortConfig, TRUE, toasts)

\* form.handleSubmit(onSubmit) with values the resolver rejects: onSubmit is
\* not called
SubmitInvalid(values) ==
  /\ pc = "idle"
  /\ ~Valid(values)
  /\ toasts' = << >>
  /\ UNCHANGED << version, pc, tasks, editingTask, searchTerm, currentPage,
                  sortConfig, isClient, storage, writable >>

handleAddTask(values, id) ==
  /\ pc = "idle"
  /\ editingTask = null
  /\ Valid(values)
  /\ Len(tasks) < MaxTasks
  /\ UNCHANGED isClient
  /\ LET newTask == newTaskOf(values, id)
     IN  IF version = "part_002"
           THEN Commit(<< newTask >> \o tasks, editingTask, searchTerm, 1, DefaultSort,
                       TRUE, << ToastAdded >>)
           ELSE Commit(<< newTask >> \o tasks, editingTask, searchTerm, currentPage,
                       sortConfig, TRUE, << ToastAdded >>)

handleUpdateTask(values) ==
  /\ pc = "idle"
  /\ editingTask # null
  /\ Valid(values)
  /\ UNCHANGED isClient
  /\ LET updatedTask == newTaskOf(values, editingTask.id)
         mapped == [i \in 1..Len(tasks) |->
                      IF tasks[i].id = editingTask.id THEN updatedTask ELSE tasks[i]]
     IN  Commit(mapped, null, searchTerm, currentPage, sortConfig,
                TRUE, << ToastUpdated >>)

\* a filter that keeps the task instead of dropping it
withoutTaskInverted(ts, id) == SelectSeq(ts, LAMBDA t : t.id = id)

\* prevTasks.filter((task) => task.id !== id)
withoutTask(ts, id) == SelectSeq(ts, LAMBDA t : t.id # id)

handleDeleteTask(id) ==
  /\ pc = "idle"
  /\ UNCHANGED isClient
  /\ LET newTasks == withoutTask(tasks, id)
         newTotalPages == totalPagesOf(Len(newTasks))
         page == IF version = "part_002"
                   THEN (IF currentPage > newTotalPages /\ newTotalPages > 0
                           THEN newTotalPages
                         ELSE IF Len(newTasks) = 0 THEN 1
                         ELSE currentPage)
                   ELSE currentPage
     IN  Commit(newTasks, editingTask, searchTerm, page, sortConfig,
                TRUE, << ToastDeleted >>)

startEditing(task) ==
  /\ pc = "idle"
  /\ UNCHANGED isClient
  /\ Commit(tasks, task, searchTerm, currentPage, sortConfig, FALSE, << >>)

cancelEditing ==
  /\ pc = "idle"
  /\ editingTask # null
  /\ UNCHANGED isClient
  /\ Commit(tasks, null, searchTerm, currentPage, sortConfig, FALSE, << >>)

\* a sort request that always sorts ascending
requestSortAscending(key) ==
  /\ pc = "idle"
  /\ UNCHANGED isClient
  /\ Commit(tasks, editingTask, searchTerm,
            IF version = "part_002" THEN 1 ELSE currentPage,
            [key |-> key, direction |-> "ascending"], FALSE, << >>)

requestSort(key) ==
  /\ pc = "idle"
  /\ UNCHANGED isClient
  /\ LET direction ==
           IF sortConfig.key = key /\ sortConfig.direction = "ascending"
             THEN "descending" ELSE "ascending"
     IN  Commit(tasks, editingTask, searchTerm,
                IF version = "part_002" THEN 1 ELSE currentPage,
                [key |-> key, direction |-> direction], FALSE, << >>)

handleSearchChange(term) ==
  /\ pc = "idle"
  /\ UNCHANGED isClient
  /\ Commit(tasks, editingTask, term, 1, sortConfig, FALSE, << >>)

clearSearch ==
  /\ pc = "idle"
  /\ searchTerm # << >>
  /\ UNCHANGED isClient
  /\ Commit(tasks, editingTask, << >>,
            IF version = "part_002" THEN 1 ELSE currentPage,
            sortConfig, FALSE, << >>)

goToPage(page) ==
  /\ pc = "idle"
  /\ UNCHANGED isClient
  /\ Commit(tasks, editingTask, searchTerm, goToPageTarget(page, totalPages, version),
            sortConfig, FALSE, << >>)

\* the ids the model deletes by: every id a task can have here
DeleteInputs == GenIds \cup IdsOf(tasks)

SubmitInvalidStep == \E values \in FormInputs : SubmitInvalid(values)
AddStep == \E values \in FormInputs, id \in GenIds : handleAddTask(values, id)
UpdateStep == \E values \in FormInputs : handleUpdateTask(values)
DeleteStep == \E id \in DeleteInputs : handleDeleteTask(id)
StartEditingStep == \E task \in Elems(paginatedTasks) : startEditing(task)
SortStep == \E key \in SortKeys : requestSort(key)
SearchStep == \E term \in SearchInputs : handleSearchChange(term)
GoToPageStep == \E page \in PageInputs : goToPage(page)

Next ==
  \/ LoadEffect
  \/ Rerender
  \/ SubmitInvalidStep
  \/ AddStep
  \/ UpdateStep
  \/ DeleteStep
  \/ StartEditingStep
  \/ cancelEditing
  \/ SortStep
  \/ SearchStep
  \/ clearSearch
  \/ GoToPageStep

Spec == Init /\ [][Next]_vars

-----------------------------------------------------------------------------
(* More than one page.  The slot holds TASKS_PER_PAGE + 1 tasks left by an  *)
(* earlier session; the rows acted on are the first and the last on screen. *)

\* how many tasks are deleted from the stored collection
MaxPagingDeletes == 1

StoredPages ==
  stringify([k \in 1..(TASKS_PER_PAGE + 1) |-> dummyTask(k - 1, SampleId(k - 1), "part_002")])

InitPaging == InitWith({StoredPages}, {TRUE})

EdgeRows ==
  IF paginatedTasks = << >> THEN {}
  ELSE {paginatedTasks[1].id, paginatedTasks[Len(paginatedTasks)].id}

PagingDeleteStep ==
  \E id \in EdgeRows :
    /\ Len(tasks) > TASKS_PER_PAGE + 1 - MaxPagingDeletes
    /\ handleDeleteTask(id)

NextPaging ==
  \/ LoadEffect
  \/ Rerender
  \/ PagingDeleteStep
  \/ SortStep
  \/ SearchStep
  \/ clearSearch
  \/ GoToPageStep

SpecPaging == InitPaging /\ [][NextPaging]_vars

-----------------------------------------------------------------------------
(* Opening the page on any stored value.  The slot holds nothing, an empty  *)
(* text, a text that is no JSON, a JSON value that is no array, an array    *)
(* with a null or with records that lack fields of a Task, or a collection  *)
(* saved earlier; the page is mounted and then only looked at.              *)

\* stored texts that are not the JSON of a Task array
MalformedInputs ==
  { [kind |-> "text", text |-> <<"{","o","o","p","s">>],
    [kind |-> "value", value |-> "object"],
    [kind |-> "array", items |-> << JsonNull >>],
    [kind |-> "array", items |-> << [id |-> <<"_","a">>] >>],
    [kind |-> "array",
     items |-> << [id |-> <<"_","a">>, date |-> toISOString(Date1), status |-> Pending] >>] }

LoadInputs ==
  {NoItem, [kind |-> "text", text |-> << >>]} \cup MalformedInputs \cup StoredInputs

InitLoad == InitWith(LoadInputs, BOOLEAN)

NextLoad ==
  \/ LoadEffect
  \/ Rerender
  \/ SortStep
  \/ SearchStep
  \/ clearSearch
  \/ GoToPageStep

SpecLoad == InitLoad /\ [][NextLoad]_vars

-----------------------------------------------------------------------------
(* Sorting and searching a stored collection whose tasks share dates,       *)
(* descriptions and statuses, so that the order among equal keys and the    *)
(* order among the tasks a search keeps can be seen.  The page is mounted   *)
(* and then only looked at.                                                 *)

StoredTies ==
  stringify(<<
    newTaskOf([date |-> Date1, description |-> <<"b">>, link |-> << >>,
               status |-> Pending], <<"_","a">>),
    newTaskOf([date |-> Date2, description |-> <<"X">>, link |-> ExampleLink,
               status |-> Completed], <<"_","b">>),
    newTaskOf([date |-> Date1, description |-> <<"B">>, link |-> << >>,
               status |-> Pending], <<"_","c">>),
    newTaskOf([date |-> Date2, description |-> <<"b">>, link |-> << >>,
               status |-> Completed], <<"_","d">>),
    newTaskOf([date |-> Date1, description |-> <<"X","b">>, link |-> ExampleLink,
               status |-> Pending], <<"_","e">>) >>)

\* what is typed into the search box: terms that keep some of the tasks
TiesSearchInputs == { << >>, <<"X">>, <<"b">>, <<"1">>, <<"P","e">> }

InitTies == InitWith({StoredTies}, BOOLEAN)

TiesSearchStep == \E term \in TiesSearchInputs : handleSearchChange(term)

NextTies ==
  \/ LoadEffect
  \/ Rerender
  \/ SortStep
  \/ TiesSearchStep
  \/ clearSearch
  \/ GoToPageStep

SpecTies == InitTies /\ [][NextTies]_vars

-----------------------------------------------------------------------------
(* Properties *)

\* the step taken is handleAddTask, handleUpdateTask, handleDeleteTask: each
\* hands its own toast to the sink first, and no other step hands any
AddTaken == pc = "idle" /\ toasts' # << >> /\ toasts'[1] = ToastAdded
UpdateTaken == pc = "idle" /\ toasts' # << >> /\ toasts'[1] = ToastUpdated
DeleteTaken == pc = "idle" /\ toasts' # << >> /\ toasts'[1] = ToastDeleted
\* the step taken is a handler that calls no setTasks
ViewTaken == pc = "idle" /\ toasts' = << >>

\* the state is the one a successful add, update, delete has left
JustMutated == pc = "idle" /\ toasts # << >> /\ toasts[1].title = "Success"

\* how often a task occurs in a collection
Count(ts, t) == Cardinality({i \in 1..Len(ts) : ts[i] = t})

\* the ids of a collection, in its order
IdSeq(ts) == [i \in 1..Len(ts) |-> ts[i].id]

\* C1: in every reachable state the ids of the tasks in the collection are
\* pairwise distinct; an id produced by add differs from every id already in
\* the collection.
C1_IdsDistinct ==
  \A i, j \in 1..Len(tasks) : i # j => tasks[i].id # tasks[j].id

\* C2: when storage writes succeed, the state left by add, update or remove
\* (the save effect has run, no other action yet) has the "tasks" slot hold
\* the snapshot of the in-memory collection: parsing it yields the same
\* tasks, field for field, in the same order.
C2_SnapshotSaved ==
  (JustMutated /\ writable) =>
    (storage.kind = "array" /\ parseTasks(storage) = tasks)

C2_Witness ==
  /\ JustMutated /\ writable
  /\ toasts = << ToastUpdated >>
  /\ Len(tasks) = 2
  /\ \E i \in 1..2 : HasLink(tasks[i])

\* C3: the search change, clear search, requestSort, goToPage (and every
\* other step that calls no setTasks) leaves the in-memory collection as it
\* was, contents and order.
C3_ViewNeverMutates == [][ViewTaken => tasks' = tasks]_vars

\* C4: the stored order is insertion order: an add that is persisted stores
\* the new task followed by what was stored, an update stores the same ids
\* in the same order, a remove stores what was stored without one id,
\* whatever sort was requested before.
C4_StoredInsertionOrder ==
  [][(writable /\ storage.kind = "array" /\ parseTasks(storage) = tasks) =>
       /\ AddTaken => Tail(IdSeq(parseTasks(storage'))) = IdSeq(parseTasks(storage))
       /\ UpdateTaken => IdSeq(parseTasks(storage')) = IdSeq(parseTasks(storage))
       /\ DeleteTaken =>
            \E id \in DeleteInputs :
              parseTasks(storage') = withoutTask(parseTasks(storage), id)]_vars

\* C5: the page rendered is never empty when at least one task matches, and
\* its index lies in 1..max(1, totalPages).
C5_PageClamped ==
  pc = "idle" =>
    /\ pageRendered(currentPage, totalPages, version) \in 1..Max(1, totalPages)
    /\ (filteredTasks # << >> => paginatedTasks # << >>)

\* C6: submitting the edit form for a task that is no longer in the
\* collection reports no success, and leaves the collection unchanged.
C6_UpdateMissingNotFound ==
  [][(UpdateTaken /\ editingTask # null /\ editingTask.id \notin IdsOf(tasks)) =>
       /\ \A i \in 1..Len(toasts') : toasts'[i].title # "Success"
       /\ tasks' = tasks]_vars

\* C7: after add of a valid candidate the first task of the list under the
\* default sort is the task just added.
C7_AddedTaskFirst ==
  [][AddTaken =>
       LET listed == sortTasks(tasks', DefaultSort)
       IN  /\ listed # << >>
           /\ Count(tasks', listed[1]) = Count(tasks, listed[1]) + 1]_vars

\* C8: add prepends: the collection after add is the new task followed by
\* the collection before, every task unchanged and in the same order.
C8_AddPrepends ==
  [][AddTaken => (Len(tasks') = Len(tasks) + 1 /\ Tail(tasks') = tasks)]_vars

\* C9: update of a task of the collection puts the submitted date,
\* description, link and status in its place under the same id; every other
\* task, the length and the order are unchanged.
C9_UpdateInPlace ==
  [][(UpdateTaken /\ editingTask # null /\ editingTask.id \in IdsOf(tasks)) =>
       /\ Len(tasks') = Len(tasks)
       /\ \E values \in FormInputs :
            /\ Valid(values)
            /\ \A i \in 1..Len(tasks) :
                 tasks'[i] = IF tasks[i].id = editingTask.id
                               THEN newTaskOf(values, editingTask.id)
                               ELSE tasks[i]]_vars

C11_WriteFailureKept ==
  [][~writable =>
       /\ \A values \in FormInputs, id \in GenIds :
            handleAddTask(values, id) =>
              /\ Len(tasks') = Len(tasks) + 1
              /\ newTaskOf(values, id) \in Elems(tasks')
              /\ (searchTerm' = << >> => newTaskOf(values, id) \in Elems(filteredTasks'))
              /\ ToastSaveError(version) \in Elems(toasts')
              /\ storage' = storage
       /\ \A values \in FormInputs :
            (handleUpdateTask(values) /\ editingTask.id \in IdsOf(tasks)) =>
              /\ newTaskOf(values, editingTask.id) \in Elems(tasks')
              /\ (searchTerm' = << >> =>
                    newTaskOf(values, editingTask.id) \in Elems(filteredTasks'))
              /\ ToastSaveError(version) \in Elems(toasts')
              /\ storage' = storage
       /\ \A id \in DeleteInputs :
            handleDeleteTask(id) =>
              /\ id \notin IdsOf(tasks')
              /\ id \notin IdsOf(filteredTasks')
              /\ ToastSaveError(version) \in Elems(toasts')
              /\ storage' = storage]_vars

C11_Witness ==
  /\ pc = "idle"
  /\ ~writable
  /\ toasts = << ToastAdded, ToastSaveError(version) >>
  /\ Len(tasks) = 2
  /\ Len(filteredTasks) = 2
  /\ storage = stringify(<< >>)

\* C12: when the stored value is not the JSON of a Task array (a text that
\* is no JSON, a JSON value that is no array, an array with a null or with
\* records that lack Task fields), the load leaves the empty collection and
\* hands an error to the notification sink, and no render after it throws.
C12_MalformedLoadDegrades ==
  [][/\ (pc = "mount" /\ storage \in MalformedInputs) =>
          (tasks' = << >> /\ toasts' # << >>)
     /\ pc' # "crashed"]_vars

\* the dates of a sequence of tasks strictly decrease with the index
DatesDecreasing(ts) ==
  \A i \in 1..(Len(ts) - 1) : getTime(ts[i].date) > getTime(ts[i + 1].date)

\* C13: when the slot holds no "tasks" item at load, the collection becomes
\* the N sample tasks (N fixed by the revision), their dates strictly
\* decreasing with the index, the slot is written with that collection in the
\* same step, and the default view lists those N tasks by descending date.
C13_SeedsOnEmptyStore ==
  [][(pc = "mount" /\ storage = NoItem) =>
       /\ Len(tasks') = SeedCount(version)
       /\ DatesDecreasing(tasks')
       /\ storage' = stringify(tasks')
       /\ filteredTasksOf(tasks', searchTerm', sortConfig', version) = tasks']_vars

\* C14: saving the collection and loading what was saved gives the collection
\* back, task by task in the same order: the same id, description and
\* status, the date equal as a date, a link that is absent still absent and
\* a link that is present still present with the same text.
C14_RoundTrip ==
  LET loaded == parseTasks(stringify(tasks))
  IN  /\ loaded = tasks
      /\ \A i \in 1..Len(tasks) :
           /\ getTime(loaded[i].date) = getTime(tasks[i].date)
           /\ HasLink(loaded[i]) <=> HasLink(tasks[i])

\* a collection of a task without link and a task with one has been saved
C14_Witness ==
  /\ pc = "idle"
  /\ Len(tasks) = 2
  /\ \E i, j \in 1..2 : HasLink(tasks[i]) /\ ~HasLink(tasks[j])
  /\ storage = stringify(tasks)
  /\ toasts = << ToastAdded >>

\* C15: typing in the search box, clearing it, and requesting a sort (any
\* key, whichever direction results) each leave currentPage at 1.
C15_ViewChangeResetsPage ==
  [][/\ \A term \in SearchInputs : handleSearchChange(term) => currentPage' = 1
     /\ clearSearch => currentPage' = 1
     /\ \A key \in SortKeys : requestSort(key) => currentPage' = 1]_vars

\* C16: totalPages is the ceiling of the number of matching tasks over 30
\* and never less than 1: with no matching task (an empty collection, or a
\* search term nothing matches) totalPages is 1 and the page holds no task.
C16_TotalPagesAtLeastOne ==
  pc = "idle" =>
    LET n == Len(filteredTasks)
    IN  /\ totalPages >= 1
        /\ totalPages * TASKS_PER_PAGE >= n
        /\ (n > 0 => (totalPages - 1) * TASKS_PER_PAGE < n)
        /\ (n = 0 => totalPages = 1 /\ paginatedTasks = << >>)

\* C16 as amended: totalPages is the ceiling of the number of matching tasks
\* over 30, the least count of pages of 30 that hold them all, which is 0
\* when no task matches; the page then holds no task.
C16_TotalPagesIsCeiling ==
  pc = "idle" =>
    LET n == Len(filteredTasks)
    IN  /\ totalPages >= 0
        /\ totalPages * TASKS_PER_PAGE >= n
        /\ (totalPages - 1) * TASKS_PER_PAGE < n
        /\ (n = 0 => totalPages = 0 /\ paginatedTasks = << >>)

\* a search term that no task of a collection of two pages matches
C16_Witness ==
  /\ pc = "idle"
  /\ searchTerm = <<"X">>
  /\ Len(tasks) > TASKS_PER_PAGE
  /\ filteredTasks = << >>
  /\ totalPages = 0
  /\ paginatedTasks = << >>

\* the pages first..last of a sequence, one after the other
RECURSIVE PagesFrom(_, _, _, _)
PagesFrom(filtered, first, last, v) ==
  IF first > last THEN << >>
  ELSE paginatedTasksOf(filtered, first, v) \o PagesFrom(filtered, first + 1, last, v)

\* C17: the pages 1..totalPages of the sorted and filtered sequence, one
\* after the other, are that sequence, each task once and in its place;
\* every page before the last holds 30 tasks and the last holds 1 to 30, so
\* 31 tasks make two pages of 30 and 1.
C17_PagesCoverView ==
  LET pageOf(p) == paginatedTasksOf(filteredTasks, p, version)
  IN  /\ PagesFrom(filteredTasks, 1, totalPages, version) = filteredTasks
      /\ \A p \in 1..(totalPages - 1) : Len(pageOf(p)) = TASKS_PER_PAGE
      /\ totalPages > 0 => Len(pageOf(totalPages)) \in 1..TASKS_PER_PAGE
      /\ Len(filteredTasks) = TASKS_PER_PAGE + 1 =>
           /\ totalPages = 2
           /\ Len(pageOf(1)) = TASKS_PER_PAGE
           /\ Len(pageOf(2)) = 1

\* the second page of 31 tasks is on screen
C17_Witness ==
  /\ pc = "idle"
  /\ Len(filteredTasks) = TASKS_PER_PAGE + 1
  /\ currentPage = 2
  /\ Len(paginatedTasks) = 1

\* C18: for the collection and the sort configuration of any state, and for
\* every search term, the filtered view is the fully sorted view with the
\* tasks that do not match left out: the tasks that stay visible keep the
\* relative order they have in the sorted view, so two tasks that match two
\* terms stand in the same order under both.
C18_SearchNeverReshuffles ==
  pc = "idle" =>
    LET sorted == filteredTasksOf(tasks, << >>, sortConfig, version)
    IN  /\ filteredTasks = filterTasks(sorted, searchTerm, version)
        /\ \A term \in TiesSearchInputs :
             filteredTasksOf(tasks, term, sortConfig, version)
               = filterTasks(sorted, term, version)

\* a search that keeps some of the tasks, among them tasks of equal status,
\* while the view is sorted by status
C18_Witness ==
  /\ pc = "idle"
  /\ searchTerm = <<"b">>
  /\ sortConfig.key = "status"
  /\ Len(filteredTasks) > 2
  /\ Len(filteredTasks) < Len(tasks)
  /\ \E i, j \in 1..Len(filteredTasks) :
       i # j /\ filteredTasks[i].status = filteredTasks[j].status

\* the place of the task with this id in a sequence of tasks
PosOf(ts, id) == CHOOSE i \in 1..Len(ts) : ts[i].id = id

\* C19: the sort is stable and idempotent.  Two tasks with equal sort keys
\* stand in the view in the order they have in the collection, whatever the
\* direction; the ascending and the descending view order tasks with equal
\* keys alike and tasks with different keys oppositely; and sorting the view
\* again, or rendering again, gives the same sequence.
C19_SortStableIdempotent ==
  pc = "idle" =>
    LET view == filteredTasks
        asc == filteredTasksOf(tasks, searchTerm,
                               [key |-> sortConfig.key, direction |-> "ascending"], version)
        desc == filteredTasksOf(tasks, searchTerm,
                                [key |-> sortConfig.key, direction |-> "descending"], version)
    IN  /\ \A i, j \in 1..Len(view) :
             (i < j /\ compareTasks(view[i], view[j], sortConfig) = 0) =>
               PosOf(tasks, view[i].id) < PosOf(tasks, view[j].id)
        /\ \A i, j \in 1..Len(asc) :
             i < j =>
               IF compareTasks(asc[i], asc[j], sortConfig) = 0
                 THEN PosOf(desc, asc[i].id) < PosOf(desc, asc[j].id)
                 ELSE PosOf(desc, asc[i].id) > PosOf(desc, asc[j].id)
        /\ sortTasks(view, sortConfig) = view
        /\ filteredTasksOf(tasksAfterMemo(tasks, view, searchTerm, version),
                           searchTerm, sortConfig, version) = view

\* a descending view of all five tasks, some of them with equal keys
C19_Witness ==
  /\ pc = "idle"
  /\ sortConfig = [key |-> "description", direction |-> "descending"]
  /\ Len(filteredTasks) = 5
  /\ \E i \in 1..4 : compareTasks(filteredTasks[i], filteredTasks[i + 1], sortConfig) = 0

\* the place of a letter in the alphabet, either case
LetterIndex(c) == CHOOSE i \in 1..26 : LowerCase[i] = c \/ UpperCase[i] = c

\* a text is alphabetically before another, or equal to it, case set aside
RECURSIVE AlphaLeq(_, _)
AlphaLeq(a, b) ==
  IF a = << >> THEN TRUE
  ELSE IF b = << >> THEN FALSE
  ELSE IF LetterIndex(Head(a)) # LetterIndex(Head(b))
    THEN LetterIndex(Head(a)) < LetterIndex(Head(b))
    ELSE AlphaLeq(Tail(a), Tail(b))

\* a task comes before another, or ties with it, by the key, ascending:
\* dates by time, descriptions alphabetically, Completed before Pending
KeyLeq(a, b, key) ==
  IF key = "date" THEN getTime(a.date) <= getTime(b.date)
  ELSE IF key = "description" THEN AlphaLeq(a.description, b.description)
  ELSE a.status = Completed \/ b.status = Pending

\* C20: with a sort key set the view holds the matching tasks, each once,
\* ordered by that key: by time for dates, alphabetically for descriptions,
\* Completed before Pending for status when ascending, and the other way
\* round when descending.
C20_ViewOrderedByKey ==
  (pc = "idle" /\ sortConfig.key # NoKey) =>
    LET view == filteredTasks
        matching == {t \in Elems(tasks) :
                       searchTerm = << >> \/ matchesSearch(t, searchTerm, version)}
    IN  /\ Elems(view) = matching
        /\ Len(view) = Cardinality(matching)
        /\ \A i \in 1..(Len(view) - 1) :
             IF sortConfig.direction = "ascending"
               THEN KeyLeq(view[i], view[i + 1], sortConfig.key)
               ELSE KeyLeq(view[i + 1], view[i], sortConfig.key)

\* all five tasks listed by status, Pending first
C20_Witness ==
  /\ pc = "idle"
  /\ sortConfig = [key |-> "status", direction |-> "descending"]
  /\ Len(filteredTasks) = 5
  /\ filteredTasks[1].status = Pending
  /\ filteredTasks[5].status = Completed

\* the lower-cased term is part of the lower-cased description, of the
\* yyyy-MM-dd date, of the long date ("January 1st, 2024") or of the status
TermFound(task, term) ==
  LET lowered == toLowerCase(term)
  IN  \/ includes(toLowerCase(task.description), lowered)
      \/ includes(toLowerCase(formatISODate(task.date)), lowered)
      \/ includes(toLowerCase(formatPPP(task.date)), lowered)
      \/ includes(toLowerCase(task.status), lowered)

\* C21: with a search term typed, the view holds exactly the tasks whose
\* description, yyyy-MM-dd date, long date or status contains the term, case
\* set aside; with no term it holds every task.
C21_SearchMatchesFields ==
  pc = "idle" =>
    Elems(filteredTasks) =
      {t \in Elems(tasks) : searchTerm = << >> \/ TermFound(t, searchTerm)}

\* a term typed with a capital that only the status of some tasks contains
C21_Witness ==
  /\ pc = "idle"
  /\ version = "part_002"
  /\ searchTerm = <<"P","e">>
  /\ Len(filteredTasks) = 3
  /\ \A i \in 1..3 : filteredTasks[i].status = Pending

\* what taskSchema asks of a record: a non-empty description and a status of
\* "Pending" or "Completed"
SchemaHolds(o) ==
  /\ {"description", "status"} \subseteq DOMAIN o
  /\ Len(o.description) >= 1
  /\ o.status \in {Pending, Completed}

\* C22: every task of the collection, right after the load included, and
\* every task of a snapshot the page writes has a non-empty description and a
\* status of Pending or Completed; a submission that breaks this is rejected
\* and leaves the collection and the snapshot as they were.
C22_TasksSatisfySchema ==
  [][ /\ \A i \in 1..Len(tasks') : SchemaHolds(tasks'[i])
      /\ storage' # storage =>
           \A i \in 1..Len(storage'.items) : SchemaHolds(storage'.items[i])
      /\ \A values \in FormInputs :
           SubmitInvalid(values) => tasks' = tasks /\ storage' = storage ]_vars

\* the link of a stored task is the submitted one, the empty text being
\* stored as no link at all
LinkStoredAs(t, link) ==
  IF link = << >> THEN ~HasLink(t) ELSE HasLink(t) /\ t.link = link

\* C23: an add or update submitted with the empty link stores the task
\* without a link and one submitted with a link stores that link unchanged;
\* no task of the collection ever has the empty text as its link.
C23_EmptyLinkStoredAbsent ==
  [][ /\ \A values \in FormInputs, id \in GenIds :
           handleAddTask(values, id) =>
             \E i \in 1..Len(tasks') :
               /\ tasks'[i].id = id
               /\ tasks'[i].description = values.description
               /\ LinkStoredAs(tasks'[i], values.link)
      /\ \A values \in FormInputs :
           handleUpdateTask(values) =>
             \A i \in 1..Len(tasks') :
               tasks'[i].id = editingTask.id => LinkStoredAs(tasks'[i], values.link)
      /\ \A i \in 1..Len(tasks') : HasLink(tasks'[i]) => tasks'[i].link # << >> ]_vars

\* an update with the empty link has taken the link off a task that had one
C23_Witness ==
  /\ pc = "idle"
  /\ toasts = << ToastUpdated >>
  /\ \E i \in 1..Len(tasks) :
       /\ tasks[i].id = <<"_","b">>
       /\ tasks[i].description = <<"X">>
       /\ ~HasLink(tasks[i])

\* C24: while a task is being edited, a task with its id is in the
\* collection; removing the task being edited ends the edit.
C24_EditedTaskExists ==
  (pc = "idle" /\ editingTask # null) => editingTask.id \in IdsOf(tasks)

\* the stored value is a list of tasks that the load reads
StoredTasksExist ==
  storage.kind = "array" /\ storage.items # << >> /\ ~loadThrows(storage)

\* C25: on startup the effects of the first render leave a stored value as it
\* is (they only write the sample tasks, when nothing is stored), and when
\* stored tasks exist the first write, the one of the render after the load,
\* holds the loaded tasks, each as often as it was stored.
C25_NoWriteBeforeLoad ==
  [][ /\ pc = "mount" =>
           \/ storage' = storage
           \/ /\ storage \in {NoItem, [kind |-> "text", text |-> << >>]}
              /\ tasks' # << >>
              /\ storage' = stringify(tasks')
      /\ (pc = "rerender" /\ StoredTasksExist /\ storage' # storage) =>
           /\ storage'.kind = "array"
           /\ Len(storage'.items) = Len(storage.items)
           /\ \A i \in 1..Len(storage.items) :
                Count(storage'.items, storage.items[i]) =
                  Count(storage.items, storage.items[i]) ]_vars

\* the render after the load has written the two stored tasks back, in the
\* order of the list on screen
C25_Witness ==
  /\ pc = "idle"
  /\ version = "page.tsx"
  /\ storage.kind = "array"
  /\ Len(storage.items) = 2
  /\ IdSeq(storage.items) = << <<"_","b">>, <<"_","a">> >>
  /\ IdSeq(tasks) = IdSeq(storage.items)

\* C26: when the load has failed on a malformed stored value, the render that
\* follows it saves the empty collection: the stored value is replaced by the
\* empty array although the user has changed nothing (when the store refuses
\* the write, the value stays and the failure is reported).
C26_FailedLoadOverwrites ==
  [][ (pc = "rerender" /\ loadThrows(storage)) =>
        /\ tasks = << >>
        /\ IF writable
             THEN storage' = [kind |-> "array", items |-> << >>]
             ELSE /\ storage' = storage
                  /\ toasts' # << >>
                  /\ toasts'[Len(toasts')] = ToastSaveError(version) ]_vars

\* the malformed value is gone: the slot holds the empty array and the load
\* error is on screen
C26_Witness ==
  /\ pc = "idle"
  /\ toasts = << ToastLoadError >>
  /\ tasks = << >>
  /\ storage = [kind |-> "array", items |-> << >>]

\* C27: a sort request on key k sets the sort key to k; the direction becomes
\* descending exactly when the list was sorted by k ascending and ascending
\* otherwise, so requests on the same key alternate and a request on another
\* key starts ascending.
C27_SortDirectionToggles ==
  [][ \A key \in SortKeys :
        requestSort(key) =>
          /\ sortConfig'.key = key
          /\ sortConfig'.direction \in {"ascending", "descending"}
          /\ sortConfig'.direction = "descending" <=>
               (sortConfig.key = key /\ sortConfig.direction = "ascending")
          /\ sortConfig.key = key => sortConfig'.direction # sortConfig.direction
          /\ sortConfig.key # key => sortConfig'.direction = "ascending" ]_vars

\* two requests on the description column have left it sorted descending
C27_Witness ==
  /\ pc = "idle"
  /\ tasks # << >>
  /\ sortConfig = [key |-> "description", direction |-> "descending"]

\* C28: after an add, whatever the view was, the list is sorted by date
\* descending and shows page 1; the search term and the task being edited
\* are as before.
C28_AddResetsView ==
  [][ \A values \in FormInputs, id \in GenIds :
        handleAddTask(values, id) =>
          /\ sortConfig' = [key |-> "date", direction |-> "descending"]
          /\ currentPage' = 1
          /\ searchTerm' = searchTerm
          /\ editingTask' = editingTask ]_vars

=============================================================================
